---- MODULE Spec2Model ----
(***************************************************************************)
(* A model of deadmono's analysis.Runner (analysis/run.go): the collection *)
(* of per-entrypoint facts, the cross-entrypoint fold intersectDeadCode    *)
(* and the emitters.                                                       *)
(*                                                                         *)
(* Maps of the Go code are TLA+ functions whose DOMAIN is the key set; a   *)
(* map[string]struct{} is the set of its keys. A pointer to a Package or   *)
(* a Function is the record it points to, tagged with the entrypoint whose *)
(* analyzer report allocated it (Src), so that two pointers are equal      *)
(* exactly when they are the same allocation. A file path is the sequence  *)
(* of its segments; an absolute path starts with the segment "/".          *)
(***************************************************************************)
EXTENDS Integers, Sequences, FiniteSets, TLC

VARIABLES
    paths,    \* r.paths: the directory of each entrypoint, as filepath.Abs resolves it
    r,        \* the Runner: FilterFlag, JSONFlag, commonModule, hasCommonModule
    eps,      \* []*entrypointInfo of Run; eps[1] is what intersectDeadCode calls result
    eps0,     \* the facts as the collectors delivered them, before the fold touches eps[1]
    next,     \* index of the entrypoint the running loop handles next
    rootPath, \* the local rootPath of listEntrypointDeadCode
    pc,       \* position in Run / intersectDeadCode
    ret,      \* the map intersectDeadCode returned
    err,      \* the error Run returned (<< >> while there is none)
    out,      \* what was written to r.writer
    calls,    \* the external commands started so far, in order
    ctx,      \* the context of Run: <<"live">>, or <<"cancelled", c>> with the
              \* command c that was running when it was cancelled (<< >> if none)
    inflight, \* the external command that is running (<< >> if none)
    looked,   \* the binaries verifyBinaries has looked up in $PATH, in order
    used,     \* the positions of the entrypoints intersectDeadCode has taken
              \* up, in order: the one it starts from, then the ones it merges
    argv,     \* the argument lists the analyzer was started with, in order
    failure   \* the step that failed and what its collaborator gave out: the
              \* combined output of the command, or the message of the parser
              \* (<< >> while no step has failed)

vars == <<paths, r, eps, eps0, next, rootPath, pc, ret, err, out, calls, ctx, inflight, looked, used, argv, failure>>

----------------------------------------------------------------------------
(* Bounds and value sets *)

MaxEps == 3

MaxPaths == 2

Pkgs == {"cache"}

FuncNames == {"Set", "Get", "Delete"}

\* the function names of the reports in whole runs
RunFuncNames == {"Delete"}

\* The file system of the runs: module m1 holds the entrypoint directories
\* /m1/a and /m1/b, module m2 holds /m2/c. `go list -m` answers with the
\* module of the directory, `go list -f {{.Root}}` with the module's root.
Dirs == {<<"/", "m1", "a">>, <<"/", "m1", "b">>, <<"/", "m2", "c">>}

ModuleOf(dir) == dir[2]

RootOf(dir) == SubSeq(dir, 1, 2)

\* The values of the -filter flag: unset, the default of the command line,
\* a regular expression of the user.
FilterFlags == {"", "<module>", "example.com/.*"}

\* How the analyzer writes the file of a function: relative to its working
\* directory, absolute below the module root, absolute outside the module
\* root (a package of another module that the filter selects).
FileForms == {"rel", "abs", "ext"}

RawFile(absDirPath, p, form) ==
    CASE form = "rel" -> <<"lib", p>>
      [] form = "abs" -> RootOf(absDirPath) \o <<"pkg", p>>
      [] form = "ext" -> <<"/", "mod", p>>

\* the line of the declaration of a function, as the analyzer reports it
LineOf(f) == CASE f = "Set" -> 6 [] f = "Get" -> 9 [] f = "Delete" -> 12

----------------------------------------------------------------------------
(* Data model *)

\* a nil Package pointer
NilPkg == [Path |-> "", Src |-> 0]

\* the zero value deadPackageFuncs{}: nil descriptor, nil funcs map. A funcs
\* map is a reference: ref names the map object, funcs is what it holds, and
\* two records with the same ref share one map.
ZeroDpf == [pkg |-> NilPkg, ref |-> <<"nil">>, funcs |-> << >>]

\* m[key] of a Go map[string]deadPackageFuncs: the zero value when the key is missing
Lookup(m, key) == IF key \in DOMAIN m THEN m[key] ELSE ZeroDpf

\* len(dpf.funcs)
LenFuncs(dpf) == Cardinality(DOMAIN dpf.funcs)

\* What the external tools can answer for one entrypoint: any set of packages
\* as dependencies, and a report with a record for any set of packages, each
\* with any set of functions. report[p][f] is the form of the file of f.
Reports(names, forms) ==
    UNION {[ps -> UNION {[fs -> forms] : fs \in SUBSET names}] : ps \in SUBSET Pkgs}

ToolAnswers(names, forms) ==
    {[deps |-> d, report |-> rp] : d \in SUBSET Pkgs, rp \in Reports(names, forms)}

\* The analyzer reports the packages its -filter selects: without a regular
\* expression of the user these are packages of the entrypoint's own module,
\* whose files lie below the module root.
FormsFor(filter) ==
    IF filter = "" \/ filter = "<module>" THEN {"rel", "abs"} ELSE FileForms

\* filepath.IsAbs
IsAbs(f) == Len(f) > 0 /\ f[1] = "/"

\* filepath.Join of a directory and a path without "." and ".." segments
Join(dir, f) == dir \o f

\* strings.CutPrefix(f, rootPath), rootPath ending with the separator
HasPrefix(f, root) == Len(f) > Len(root) /\ SubSeq(f, 1, Len(root)) = root

CutPrefix(f, root) == IF HasPrefix(f, root) THEN SubSeq(f, Len(root) + 1, Len(f)) ELSE f

\* a faulty normalization: a relative path is joined with the module root
NormalizeFileJoinsRoot(f, absDirPath, root, hasCommonModule) ==
    LET abs == IF IsAbs(f) THEN f ELSE Join(root, f)
    IN  IF hasCommonModule THEN CutPrefix(abs, root) ELSE abs

\* a faulty normalization: the root prefix is cut whatever hasCommonModule says
NormalizeFileAlwaysCuts(f, absDirPath, root, hasCommonModule) ==
    CutPrefix(IF IsAbs(f) THEN f ELSE Join(absDirPath, f), root)

\* lines 500-510: the file of one function
NormalizeFile(f, absDirPath, root, hasCommonModule) ==
    LET abs == IF IsAbs(f) THEN f ELSE Join(absDirPath, f)
    IN  IF hasCommonModule THEN CutPrefix(abs, root) ELSE abs

\* lines 489-516: the map listEntrypointDeadCode builds from the report of
\* the analyzer for entrypoint k
ParseReport(k, report, absDirPath, root, hasCommonModule) ==
    [p \in DOMAIN report |->
        [pkg   |-> [Path |-> p, Src |-> k],
         ref   |-> <<"ep", k, p>>,
         funcs |-> [f \in DOMAIN report[p] |->
                     [Name     |-> f,
                      Src      |-> k,
                      Position |-> [File |-> NormalizeFile(RawFile(absDirPath, p, report[p][f]),
                                                           absDirPath, root, hasCommonModule),
                                    Line |-> LineOf(f),
                                    Col  |-> 6]]]]]

----------------------------------------------------------------------------
(* intersectDeadCode *)

\* a faulty initialization: no record is added
InitResultSkips(result) == result

\* a faulty initialization: the record of every package of result.deps is
\* replaced by the zero record, also when the report has one
InitResultResetsAll(result) ==
    [result EXCEPT !.deadCode =
        [p \in (DOMAIN result.deadCode) \cup result.deps |->
            IF p \in result.deps THEN ZeroDpf ELSE result.deadCode[p]]]

\* lines 523-530: every package of result.deps without a record gets the zero record
InitResult(result) ==
    [result EXCEPT !.deadCode =
        [p \in (DOMAIN result.deadCode) \cup result.deps |->
            IF p \in DOMAIN result.deadCode THEN result.deadCode[p] ELSE ZeroDpf]]

\* a faulty adoption test: only a missing record counts, not a package that is
\* missing from result.deps
AdoptsMissingRecordOnly(result, p) == ~(p \in DOMAIN result.deadCode)

\* a faulty adoption test: the record of the entrypoint always replaces the
\* stored one
AdoptsAlways(result, p) == TRUE

\* line 540: the record of the entrypoint is adopted wholesale
Adopts(result, p) == ~(p \in DOMAIN result.deadCode) \/ ~(p \in result.deps)

\* a faulty intersection: the names that are not in dpf are deleted from the
\* stored map itself
IntersectionInPlace(resultDpf, dpf) ==
    [pkg   |-> resultDpf.pkg,
     ref   |-> resultDpf.ref,
     funcs |-> [fn \in (DOMAIN resultDpf.funcs) \cap (DOMAIN dpf.funcs) |-> dpf.funcs[fn]]]

\* a faulty intersection: the record of the folded entrypoint replaces the
\* stored one
IntersectionTakesEntrypoint(resultDpf, dpf) == dpf

\* a faulty intersection: the surviving functions carry the stored records
IntersectionKeepsStored(resultDpf, dpf) ==
    [pkg   |-> resultDpf.pkg,
     ref   |-> <<"new", resultDpf.pkg.Path>>,
     funcs |-> [fn \in (DOMAIN resultDpf.funcs) \cap (DOMAIN dpf.funcs) |-> resultDpf.funcs[fn]]]

\* a faulty intersection: the functions of either record
IntersectionKeepsAll(resultDpf, dpf) ==
    [pkg   |-> resultDpf.pkg,
     ref   |-> <<"new", resultDpf.pkg.Path>>,
     funcs |-> [fn \in (DOMAIN resultDpf.funcs) \cup (DOMAIN dpf.funcs) |->
                 IF fn \in DOMAIN dpf.funcs THEN dpf.funcs[fn] ELSE resultDpf.funcs[fn]]]

\* a faulty intersection: the new record is built without the descriptor
IntersectionWithoutPkg(resultDpf, dpf) ==
    [pkg   |-> NilPkg,
     ref   |-> <<"new", resultDpf.pkg.Path>>,
     funcs |-> [fn \in (DOMAIN resultDpf.funcs) \cap (DOMAIN dpf.funcs) |-> dpf.funcs[fn]]]

\* lines 548-557: the functions of resultDpf that dpf has too
Intersection(resultDpf, dpf) ==
    [pkg   |-> resultDpf.pkg,
     ref   |-> <<"new", resultDpf.pkg.Path>>,
     funcs |-> [fn \in (DOMAIN resultDpf.funcs) \cap (DOMAIN dpf.funcs) |-> dpf.funcs[fn]]]

\* lines 533-559: the loop over ep.deadCode. Each iteration reads and writes
\* the entries of its own package only, so the map's iteration order is immaterial.
FoldDeadCode(result, ep) ==
    [result EXCEPT
        !.deps     = result.deps \cup {p \in DOMAIN ep.deadCode : Adopts(result, p)},
        !.deadCode = [p \in (DOMAIN result.deadCode) \cup (DOMAIN ep.deadCode) |->
                        IF p \in DOMAIN ep.deadCode
                        THEN IF Adopts(result, p)
                             THEN ep.deadCode[p]
                             ELSE Intersection(result.deadCode[p], ep.deadCode[p])
                        ELSE result.deadCode[p]]]

\* line 564: the entrypoint holds no dead function for p
FullyUsed(ep, p) == LenFuncs(Lookup(ep.deadCode, p)) = 0

\* a faulty loop over ep.deps: every package the entrypoint holds no function
\* for is reset, imported or not
FoldDepsIgnoresDeps(result, ep) ==
    LET reset == {p \in Pkgs : FullyUsed(ep, p)}
    IN  [result EXCEPT
            !.deps     = result.deps \cup reset,
            !.deadCode = [p \in (DOMAIN result.deadCode) \cup reset |->
                            IF p \in reset THEN ZeroDpf ELSE result.deadCode[p]]]

\* a faulty loop over ep.deps: a package is reset when the accumulator holds
\* no function for it
FoldDepsLooksAtResult(result, ep) ==
    LET reset == {p \in ep.deps : LenFuncs(Lookup(result.deadCode, p)) = 0}
    IN  [result EXCEPT
            !.deps     = result.deps \cup reset,
            !.deadCode = [p \in (DOMAIN result.deadCode) \cup reset |->
                            IF p \in reset THEN ZeroDpf ELSE result.deadCode[p]]]

\* a faulty loop over ep.deps: no reset at all
FoldDepsSkipped(result, ep) == result

\* a faulty loop over ep.deps: the record of a package the entrypoint holds
\* no function for is deleted
FoldDepsDeletes(result, ep) ==
    LET reset == {p \in ep.deps : FullyUsed(ep, p)}
    IN  [result EXCEPT
            !.deps     = result.deps \cup reset,
            !.deadCode = [p \in (DOMAIN result.deadCode) \ reset |-> result.deadCode[p]]]

\* lines 561-568: the loop over ep.deps
FoldDeps(result, ep) ==
    LET reset == {p \in ep.deps : FullyUsed(ep, p)}
    IN  [result EXCEPT
            !.deps     = result.deps \cup reset,
            !.deadCode = [p \in (DOMAIN result.deadCode) \cup reset |->
                            IF p \in reset THEN ZeroDpf ELSE result.deadCode[p]]]

\* lines 532-569: one iteration of the loop over eps[1:]
Merge(result, ep) == FoldDeps(FoldDeadCode(result, ep), ep)

\* lines 521-571 as a function of the list
RECURSIVE FoldFrom(_, _, _)
FoldFrom(result, list, i) ==
    IF i > Len(list) THEN result ELSE FoldFrom(Merge(result, list[i]), list, i + 1)

intersectDeadCode(list) == FoldFrom(InitResult(list[1]), list, 2).deadCode

----------------------------------------------------------------------------------------------------------------------------------------
(* The fold, step by step. result aliases eps[1]: every write goes to eps[1]. *)

\* lines 542, 558: the list once the accumulator acc is stored in eps[1]. A
\* record adopted from an entrypoint shares the funcs map of that entrypoint
\* (the struct is copied, the map is not), so what the accumulator holds
\* under a map object is what every record with that map object holds.
Store(list, acc) ==
    LET held(dpf) == {q \in DOMAIN acc.deadCode :
                        dpf.ref # <<"nil">> /\ acc.deadCode[q].ref = dpf.ref}
        seen(dpf) == IF held(dpf) = {} THEN dpf
                     ELSE [dpf EXCEPT !.funcs = acc.deadCode[CHOOSE q \in held(dpf) : TRUE].funcs]
    IN  [k \in DOMAIN list |->
            IF k = 1 THEN acc
            ELSE [list[k] EXCEPT !.deadCode = [p \in DOMAIN list[k].deadCode |-> seen(list[k].deadCode[p])]]]

\* a faulty start: the loop ranges over eps, not over eps[1:]
FoldInitFromFirst ==
    /\ pc = "intersect"
    /\ eps' = [eps EXCEPT ![1] = InitResult(eps[1])]
    /\ used' = <<1>>
    /\ next' = 1
    /\ pc' = "fold"
    /\ UNCHANGED <<paths, r, eps0, rootPath, ret, err, out, calls, ctx, inflight, looked, argv, failure>>

\* lines 522-532
FoldInit ==
    /\ pc = "intersect"
    /\ eps' = [eps EXCEPT ![1] = InitResult(eps[1])]
    /\ used' = <<1>>
    /\ next' = 2
    /\ pc' = "fold"
    /\ UNCHANGED <<paths, r, eps0, rootPath, ret, err, out, calls, ctx, inflight, looked, argv, failure>>

FoldEntrypoint ==
    /\ pc = "fold"
    /\ next <= Len(eps)
    /\ eps' = Store(eps, Merge(eps[1], eps[next]))
    /\ used' = Append(used, next)
    /\ next' = next + 1
    /\ UNCHANGED <<paths, r, eps0, rootPath, pc, ret, err, out, calls, ctx, inflight, looked, argv, failure>>

FoldReturn ==
    /\ pc = "fold"
    /\ next > Len(eps)
    /\ ret' = eps[1].deadCode
    /\ pc' = "folded"
    /\ UNCHANGED <<paths, r, eps, eps0, next, rootPath, err, out, calls, ctx, inflight, looked, used, argv, failure>>

\* the Runner that New returns, with the flags the caller sets before Run
NewRunner(filter, json) ==
    [FilterFlag |-> filter, JSONFlag |-> json, commonModule |-> "", hasCommonModule |-> FALSE,
     GeneratedFlag |-> FALSE, TestFlag |-> FALSE, TagsFlag |-> ""]

\* the directory the entrypoints of the fold on its own live in
FoldDir == <<"/", "m1", "a">>

\* The fold on its own: the entrypoint list is any list the collectors can
\* deliver, here for entrypoints of one module.
InitFold ==
    /\ \E n \in 1..MaxEps : \E ans \in [1..n -> ToolAnswers(FuncNames, {"abs"})] :
          eps = [k \in 1..n |->
                    [absPath  |-> FoldDir,
                     deps     |-> ans[k].deps,
                     deadCode |-> ParseReport(k, ans[k].report, FoldDir, RootOf(FoldDir), TRUE)]]
    /\ eps0 = eps
    /\ paths = [k \in 1..Len(eps) |-> FoldDir]
    /\ r = [NewRunner("", FALSE) EXCEPT !.commonModule = ModuleOf(FoldDir), !.hasCommonModule = TRUE]
    /\ next = 1
    /\ rootPath = RootOf(FoldDir)
    /\ pc = "intersect"
    /\ ret = << >>
    /\ err = << >>
    /\ out = << >>
    /\ calls = << >>
    /\ ctx = <<"live">>
    /\ inflight = << >>
    /\ looked = << >>
    /\ used = << >>
    /\ argv = << >>
    /\ failure = << >>

NextFold == FoldInit \/ FoldEntrypoint \/ FoldReturn

SpecFold == InitFold /\ [][NextFold]_vars

----------------------------------------------------------------------------
(* The emitters *)

\* The byte order of the strings of the model, as strings.Compare and
\* slices.Sort see it: the separator '/' is 47, the digits are 48..57, ':' is
\* 58, and the words (none a prefix of another but "c" of "cache", which the
\* order keeps) follow in alphabetical order.
WordRank(w) ==
    CASE w = "Delete" -> 101 [] w = "Get" -> 102 [] w = "Set" -> 103
      [] w = "a" -> 111 [] w = "b" -> 112 [] w = "c" -> 113 [] w = "cache" -> 114
      [] w = "lib" -> 115 [] w = "m1" -> 116 [] w = "m2" -> 117 [] w = "mod" -> 118
      [] w = "pkg" -> 119 [] w = "queue" -> 120

\* the bytes of a path: its segments with the separator between them
RECURSIVE PathKey(_)
PathKey(f) ==
    IF Len(f) = 0 THEN << >>
    ELSE IF f[1] = "/" THEN <<47>> \o PathKey(Tail(f))
    ELSE IF Len(f) = 1 THEN <<WordRank(f[1])>>
    ELSE <<WordRank(f[1]), 47>> \o PathKey(Tail(f))

\* the bytes of %d
RECURSIVE Digits(_)
Digits(n) == IF n < 10 THEN <<48 + n>> ELSE Digits(n \div 10) \o <<48 + (n % 10)>>

\* strings.Compare(a, b) < 0 on byte sequences
LexLess(a, b) ==
    \E i \in 1..Len(b) :
        /\ i - 1 <= Len(a)
        /\ \A j \in 1..(i - 1) : a[j] = b[j]
        /\ (i - 1 = Len(a) \/ a[i] < b[i])

\* a faulty key: the line number compared as a number, not as its digits
LineKeyNumeric(fun) ==
    PathKey(fun.Position.File) \o <<58>> \o <<fun.Position.Line>> \o <<58>>
        \o Digits(fun.Position.Col) \o <<58>> \o <<WordRank(fun.Name)>>

\* line 607-610: the bytes of "%s:%d:%d: unreachable func: %s"; the constant
\* text between the column and the name is the same in every line
LineKey(fun) ==
    PathKey(fun.Position.File) \o <<58>> \o Digits(fun.Position.Line) \o <<58>>
        \o Digits(fun.Position.Col) \o <<58>> \o <<WordRank(fun.Name)>>

\* a faulty line: the column printed where the line number belongs
TextLineSwapsLineCol(fun) ==
    [File |-> fun.Position.File, Line |-> fun.Position.Col,
     Col |-> fun.Position.Line, Name |-> fun.Name]

\* the line printText writes for a function
TextLine(fun) ==
    [File |-> fun.Position.File, Line |-> fun.Position.Line,
     Col |-> fun.Position.Col, Name |-> fun.Name]

\* the orders in which a slice can hold the elements of set S
Orders(S) ==
    {q \in [1..Cardinality(S) -> S] : \A i, j \in 1..Cardinality(S) : q[i] = q[j] => i = j}

\* the (package, function) pairs of a dead-code map
Entries(deadCode) ==
    UNION {{<<p, f>> : f \in DOMAIN deadCode[p].funcs} : p \in DOMAIN deadCode}

\* lines 603-618: the lines in the order slices.Sort leaves them; lines that
\* are equal strings stand in any order
printText(deadCode) ==
    LET key(x) == LineKey(deadCode[x[1]].funcs[x[2]])
    IN  {[i \in DOMAIN q |-> TextLine(deadCode[q[i][1]].funcs[q[i][2]])] :
            q \in {o \in Orders(Entries(deadCode)) :
                      \A i, j \in DOMAIN o : i < j => ~LexLess(key(o[j]), key(o[i]))}}

\* lines 584-590: the comparison of two functions of a package is negative
FuncLess(a, b) ==
    IF a.Position.File # b.Position.File
    THEN LexLess(PathKey(a.Position.File), PathKey(b.Position.File))
    ELSE a.Position.Line - b.Position.Line < 0

\* a faulty selection: every key of the map is written
WrittenAll(deadCode) == DOMAIN deadCode

\* lines 576-593: the packages that are written
Written(deadCode) == {p \in DOMAIN deadCode : LenFuncs(deadCode[p]) # 0}

\* line 580: dpf.pkg is dereferenced for every written package
NilDereference(deadCode) == \E p \in Written(deadCode) : deadCode[p].pkg = NilPkg

\* lines 581-590: the orders slices.SortFunc can leave the functions of a
\* package in; functions that compare equal stand in any order
SortedFuncs(dpf) ==
    {o \in Orders({dpf.funcs[f] : f \in DOMAIN dpf.funcs}) :
        \A i, j \in DOMAIN o : i < j => ~FuncLess(o[j], o[i])}

\* lines 594-596: the written packages in the order of their import paths
SortedPackages(deadCode) ==
    {o \in Orders(Written(deadCode)) :
        \A i, j \in DOMAIN o : i < j =>
            ~LexLess(<<WordRank(deadCode[o[j]].pkg.Path)>>, <<WordRank(deadCode[o[i]].pkg.Path)>>)}

\* lines 573-601: the documents printJSON can write; a package document is
\* the descriptor with the sorted functions
printJSON(deadCode) ==
    LET docs(p) == {[Path |-> deadCode[p].pkg.Path, Funcs |-> fs] : fs \in SortedFuncs(deadCode[p])}
    IN  UNION {{d \in [DOMAIN q -> UNION {docs(p) : p \in Written(deadCode)}] :
                    \A i \in DOMAIN q : d[i] \in docs(q[i])} :
                q \in SortedPackages(deadCode)}

----------------------------------------------------------------------------
(* Run *)

ToolFailed == "exit status 1"

\* the pc values at which Run is about to run an external command
CommandPcs == {"scan", "listDependencies", "listRoot", "deadcode"}

\* a faulty order: the analyzer runs before the module root is asked for
CommandSwapped(p) ==
    CASE p = "scan" -> "go list -m"
      [] p = "listDependencies" -> "go list deps"
      [] p = "listRoot" -> "deadcode"
      [] p = "deadcode" -> "go list root"

\* lines 410, 434, 472, 482: the command run at a position
Command(p) ==
    CASE p = "scan" -> "go list -m"
      [] p = "listDependencies" -> "go list deps"
      [] p = "listRoot" -> "go list root"
      [] p = "deadcode" -> "deadcode"

\* a faulty table: both queries of the second pass get the same text
FailureShared(p) ==
    CASE p = "scan" -> "failed to list module name"
      [] p = "listDependencies" -> "failed to list dependencies"
      [] p = "listRoot" -> "failed to list deadcode"
      [] p = "deadcode" -> "failed to list deadcode"

\* lines 413, 437, 475, 485: the text the caller puts before the error of a command
Failure(p) ==
    CASE p = "scan" -> "failed to list module name"
      [] p = "listDependencies" -> "failed to list dependencies"
      [] p = "listRoot" -> "failed to list root path"
      [] p = "deadcode" -> "failed to list deadcode"

\* a faulty command: it is not bound to the context, so it can run to the end
\* and succeed after the context is cancelled
CompletesAlways(c) == TRUE

\* utilities.go line 10: the command is bound to the context (exec.CommandContext),
\* which kills the process once the context is done; a command killed this way
\* never returns success
Completes(c) == c = <<"live">>

\* utilities.go lines 12-15: the error of a command that did not succeed
CommandError == IF ctx = <<"live">> THEN ToolFailed ELSE "signal: killed"

\* what a command that fails has written to its standard output and error
\* (a command that was not started has written nothing, see StartCancelled)
FailureOutputs == {"no Go files"}

\* a faulty wrapping: the output of the command is dropped
CommandFailureDropsOutput(o, e) == <<"", e>>

\* utilities.go line 14: fmt.Errorf("%s\nErr: %s", out, err.Error()), the
\* combined output and then the error of the command
CommandFailure(o, e) == <<o, e>>

\* line 492: the text put before the error of json.Unmarshal
UnmarshalFailure == "failed to unmarshal deadcode output"

\* the messages of json.Unmarshal for a report that is not the JSON expected
UnmarshalErrors == {"invalid character"}

\* utilities.go line 12: CombinedOutput of the running command c returns
Returns(c) ==
    /\ inflight = c
    /\ inflight' = << >>

\* a faulty error path: the error is noted and Run goes on
FailGoesOn(e) ==
    /\ err' = e
    /\ pc' = pc

\* Run and its callees return the error to the caller
Fail(e) ==
    /\ err' = e
    /\ pc' = "failed"

\* lines 396, 401: the binaries in the order verifyBinaries looks them up
Binaries == <<"deadcode", "go">>

\* a faulty order: the binaries are looked up before the paths are counted
RunNoPathsAfterLookup ==
    /\ pc = "run"
    /\ Len(paths) = 0
    /\ looked' = Binaries
    /\ Fail(<<"no paths provided">>)
    /\ UNCHANGED <<paths, r, eps, eps0, next, rootPath, ret, out, calls, ctx, inflight, used, argv, failure>>

\* lines 338-340
RunNoPaths ==
    /\ pc = "run"
    /\ Len(paths) = 0
    /\ Fail(<<"no paths provided">>)
    /\ UNCHANGED <<paths, r, eps, eps0, next, rootPath, ret, out, calls, ctx, inflight, looked, used, argv, failure>>

\* lines 341-344, 395-407: one of the binaries is not in $PATH
VerifyBinariesFails ==
    /\ pc = "run"
    /\ Len(paths) # 0
    /\ \E n \in 1..Len(Binaries) :
          /\ looked' = SubSeq(Binaries, 1, n)
          /\ Fail(<<"executable file not found in $PATH", Binaries[n]>>)
    /\ UNCHANGED <<paths, r, eps, eps0, next, rootPath, ret, out, calls, ctx, inflight, used, argv, failure>>

\* a faulty start: the paths are not counted, and with no path both loops
\* are over at once
VerifyBinariesOkUncounted ==
    /\ pc = "run"
    /\ looked' = Binaries
    /\ pc' = IF Len(paths) = 0 THEN "intersect" ELSE "scan"
    /\ next' = 1
    /\ UNCHANGED <<paths, r, eps, eps0, rootPath, ret, err, out, calls, ctx, inflight, used, argv, failure>>

\* lines 341-344, 395-407: both binaries are in $PATH
VerifyBinariesOk ==
    /\ pc = "run"
    /\ Len(paths) # 0
    /\ looked' = Binaries
    /\ pc' = "scan"
    /\ next' = 1
    /\ UNCHANGED <<paths, r, eps, eps0, rootPath, ret, err, out, calls, ctx, inflight, used, argv, failure>>

\* a faulty argument list: the -test flag is never passed on
getDeadCodeArgsDropsTest(runner) ==
    <<"-json">>
    \o (IF runner.GeneratedFlag THEN <<"-generated">> ELSE << >>)
    \o (IF runner.TagsFlag # "" THEN <<"-tags", runner.TagsFlag>> ELSE << >>)
    \o (IF runner.FilterFlag # "" THEN <<"-filter", runner.FilterFlag>> ELSE << >>)
    \o <<"./...">>

\* lines 454-469
getDeadCodeArgs(runner) ==
    <<"-json">>
    \o (IF runner.GeneratedFlag THEN <<"-generated">> ELSE << >>)
    \o (IF runner.TestFlag THEN <<"-test">> ELSE << >>)
    \o (IF runner.TagsFlag # "" THEN <<"-tags", runner.TagsFlag>> ELSE << >>)
    \o (IF runner.FilterFlag # "" THEN <<"-filter", runner.FilterFlag>> ELSE << >>)
    \o <<"./...">>

\* utilities.go lines 10-12: the command of the position is started; the
\* analyzer is started with the arguments of getDeadCodeArgs (line 482)
StartCommand ==
    /\ pc \in CommandPcs
    /\ inflight = << >>
    /\ ctx = <<"live">>
    /\ inflight' = <<Command(pc), next>>
    /\ calls' = Append(calls, <<Command(pc), next>>)
    /\ argv' = IF pc = "deadcode" THEN Append(argv, getDeadCodeArgs(r)) ELSE argv
    /\ UNCHANGED <<paths, r, eps, eps0, next, rootPath, pc, ret, err, out, ctx, looked, used, failure>>

\* utilities.go lines 10-15: with the context done already, the command is
\* not started and the error of the context is returned
StartCancelled ==
    /\ pc \in CommandPcs
    /\ inflight = << >>
    /\ ctx # <<"live">>
    /\ Fail(<<Failure(pc)>> \o CommandFailure("", "context canceled"))
    /\ failure' = <<pc, "">>
    /\ UNCHANGED <<paths, r, eps, eps0, next, rootPath, ret, out, calls, ctx, inflight, looked, used, argv>>

\* part_002 line 40: a signal cancels the context of the run
Cancel ==
    /\ pc \notin {"done", "failed", "panic"}
    /\ ctx = <<"live">>
    /\ ctx' = <<"cancelled", inflight>>
    /\ UNCHANGED <<paths, r, eps, eps0, next, rootPath, pc, ret, err, out, calls, inflight, looked, used, argv, failure>>

\* lines 376-379: filepath.Abs fails
AbsFails ==
    /\ pc = "scan"
    /\ inflight = << >>
    /\ Fail(<<"failed to convert to absolute path", next>>)
    /\ UNCHANGED <<paths, r, eps, eps0, next, rootPath, ret, out, calls, ctx, inflight, looked, used, argv, failure>>

\* lines 411-414
VerifyModuleFails ==
    /\ pc = "scan"
    /\ Returns(<<"go list -m", next>>)
    /\ \E o \in FailureOutputs :
          /\ Fail(<<"failed to list module name">> \o CommandFailure(o, CommandError))
          /\ failure' = <<pc, o>>
    /\ UNCHANGED <<paths, r, eps, eps0, next, rootPath, ret, out, calls, ctx, looked, used, argv>>

\* a faulty policy: a differing module is accepted whatever FilterFlag is
RejectsNever(runner, m) == FALSE

\* line 423: a differing module is rejected
Rejects(runner, m) == runner.FilterFlag = "<module>" \/ runner.FilterFlag = ""

\* a faulty switch: an entrypoint of the common module sets hasCommonModule
\* again
AfterVerifyRestores(runner, m) ==
    IF runner.commonModule = "" \/ runner.commonModule = m
    THEN [runner EXCEPT !.commonModule = m, !.hasCommonModule = TRUE]
    ELSE [runner EXCEPT !.hasCommonModule = FALSE]

\* lines 417-429: the Runner after verifyModule accepted module m
AfterVerify(runner, m) ==
    IF runner.commonModule = ""
    THEN [runner EXCEPT !.commonModule = m, !.hasCommonModule = TRUE]
    ELSE IF runner.commonModule = m THEN runner
    ELSE [runner EXCEPT !.hasCommonModule = FALSE]

\* lines 416-431
VerifyModuleOk ==
    /\ pc = "scan"
    /\ Returns(<<"go list -m", next>>)
    /\ Completes(ctx)
    /\ LET m == ModuleOf(paths[next])
       IN  \/ /\ r.commonModule = ""
              /\ r' = AfterVerify(r, m)
              /\ pc' = "listDependencies"
              /\ UNCHANGED err
           \/ /\ r.commonModule # ""
              /\ r.commonModule = m
              /\ r' = AfterVerify(r, m)
              /\ pc' = "listDependencies"
              /\ UNCHANGED err
           \/ /\ r.commonModule # ""
              /\ r.commonModule # m
              /\ Rejects(r, m)
              /\ Fail(<<"different modules are not supported without filter flag",
                        r.commonModule, m>>)
              /\ UNCHANGED r
           \/ /\ r.commonModule # ""
              /\ r.commonModule # m
              /\ ~Rejects(r, m)
              /\ r' = AfterVerify(r, m)
              /\ pc' = "listDependencies"
              /\ UNCHANGED err
    /\ UNCHANGED <<paths, eps, eps0, next, rootPath, ret, out, calls, ctx, looked, used, argv, failure>>

\* lines 435-438
ListDependenciesFails ==
    /\ pc = "listDependencies"
    /\ Returns(<<"go list deps", next>>)
    /\ \E o \in FailureOutputs :
          /\ Fail(<<"failed to list dependencies">> \o CommandFailure(o, CommandError))
          /\ failure' = <<pc, o>>
    /\ UNCHANGED <<paths, r, eps, eps0, next, rootPath, ret, out, calls, ctx, looked, used, argv>>

\* a faulty loop: the dead-code pass of an entrypoint follows its dependency
\* listing at once
ListDependenciesOkThenAnalyze ==
    /\ pc = "listDependencies"
    /\ Returns(<<"go list deps", next>>)
    /\ Completes(ctx)
    /\ \E deps \in SUBSET Pkgs :
          eps' = Append(eps, [absPath |-> paths[next], deps |-> deps, deadCode |-> << >>])
    /\ pc' = "listRoot"
    /\ UNCHANGED <<paths, r, eps0, next, rootPath, ret, err, out, calls, ctx, looked, used, argv, failure>>

\* lines 440-451, 354, 358
ListDependenciesOk ==
    /\ pc = "listDependencies"
    /\ Returns(<<"go list deps", next>>)
    /\ Completes(ctx)
    /\ \E deps \in SUBSET Pkgs :
          eps' = Append(eps, [absPath |-> paths[next], deps |-> deps, deadCode |-> << >>])
    /\ IF next < Len(paths)
       THEN next' = next + 1 /\ pc' = "scan"
       ELSE next' = 1 /\ pc' = "listRoot"
    /\ UNCHANGED <<paths, r, eps0, rootPath, ret, err, out, calls, ctx, looked, used, argv, failure>>

\* lines 473-476
ListRootFails ==
    /\ pc = "listRoot"
    /\ Returns(<<"go list root", next>>)
    /\ \E o \in FailureOutputs :
          /\ Fail(<<"failed to list root path">> \o CommandFailure(o, CommandError))
          /\ failure' = <<pc, o>>
    /\ UNCHANGED <<paths, r, eps, eps0, next, rootPath, ret, out, calls, ctx, looked, used, argv>>

\* line 477
ListRootOk ==
    /\ pc = "listRoot"
    /\ Returns(<<"go list root", next>>)
    /\ Completes(ctx)
    /\ rootPath' = RootOf(eps[next].absPath)
    /\ pc' = "deadcode"
    /\ UNCHANGED <<paths, r, eps, eps0, next, ret, err, out, calls, ctx, looked, used, argv, failure>>

\* lines 483-486
DeadcodeFails ==
    /\ pc = "deadcode"
    /\ Returns(<<"deadcode", next>>)
    /\ \E o \in FailureOutputs :
          /\ Fail(<<"failed to list deadcode">> \o CommandFailure(o, CommandError))
          /\ failure' = <<pc, o>>
    /\ UNCHANGED <<paths, r, eps, eps0, next, rootPath, ret, out, calls, ctx, looked, used, argv>>

\* lines 491-493
UnmarshalFails ==
    /\ pc = "deadcode"
    /\ Returns(<<"deadcode", next>>)
    /\ Completes(ctx)
    /\ \E msg \in UnmarshalErrors :
          /\ Fail(<<UnmarshalFailure, msg>>)
          /\ failure' = <<"unmarshal", msg>>
    /\ UNCHANGED <<paths, r, eps, eps0, next, rootPath, ret, out, calls, ctx, looked, used, argv>>

\* lines 489-518, 359, 365
DeadcodeOk ==
    /\ pc = "deadcode"
    /\ Returns(<<"deadcode", next>>)
    /\ Completes(ctx)
    /\ \E report \in Reports(RunFuncNames, FormsFor(r.FilterFlag)) :
          eps' = [eps EXCEPT ![next].deadCode =
                    ParseReport(next, report, eps[next].absPath, rootPath, r.hasCommonModule)]
    /\ IF next < Len(eps)
       THEN next' = next + 1 /\ pc' = "listRoot" /\ UNCHANGED eps0
       ELSE next' = 1 /\ pc' = "intersect" /\ eps0' = eps'
    /\ UNCHANGED <<paths, r, rootPath, ret, err, out, calls, ctx, looked, used, argv, failure>>

\* lines 367-368
PrintJSON ==
    /\ pc = "folded"
    /\ r.JSONFlag
    /\ IF NilDereference(ret)
       THEN pc' = "panic" /\ UNCHANGED out
       ELSE pc' = "done" /\ out' \in printJSON(ret)
    /\ UNCHANGED <<paths, r, eps, eps0, next, rootPath, ret, err, calls, ctx, inflight, looked, used, argv, failure>>

\* lines 370-372
PrintText ==
    /\ pc = "folded"
    /\ ~r.JSONFlag
    /\ out' \in printText(ret)
    /\ pc' = "done"
    /\ UNCHANGED <<paths, r, eps, eps0, next, rootPath, ret, err, calls, ctx, inflight, looked, used, argv, failure>>

\* the state after New and the setting of the flags
Init ==
    /\ paths \in UNION {[1..n -> Dirs] : n \in 0..MaxPaths}
    /\ \E filter \in FilterFlags, json \in BOOLEAN : r = NewRunner(filter, json)
    /\ eps = << >>
    /\ eps0 = << >>
    /\ next = 1
    /\ rootPath = << >>
    /\ pc = "run"
    /\ ret = << >>
    /\ err = << >>
    /\ out = << >>
    /\ calls = << >>
    /\ ctx = <<"live">>
    /\ inflight = << >>
    /\ looked = << >>
    /\ used = << >>
    /\ argv = << >>
    /\ failure = << >>

Next ==
    \/ RunNoPaths \/ VerifyBinariesFails \/ VerifyBinariesOk
    \/ AbsFails \/ VerifyModuleFails \/ VerifyModuleOk
    \/ ListDependenciesFails \/ ListDependenciesOk
    \/ ListRootFails \/ ListRootOk
    \/ DeadcodeFails \/ UnmarshalFails \/ DeadcodeOk
    \/ FoldInit \/ FoldEntrypoint \/ FoldReturn
    \/ PrintJSON \/ PrintText
    \/ StartCommand \/ StartCancelled \/ Cancel

Spec == Init /\ [][Next]_vars

----------------------------------------------------------------------------
(* The first pass on its own: scanEntrypoint for every path of longer lists *)

MaxScanPaths == 3

\* the state when the loop over r.paths starts
InitScan ==
    /\ paths \in UNION {[1..n -> Dirs] : n \in 1..MaxScanPaths}
    /\ \E filter \in FilterFlags : r = NewRunner(filter, FALSE)
    /\ eps = << >>
    /\ eps0 = << >>
    /\ next = 1
    /\ rootPath = << >>
    /\ pc = "scan"
    /\ ret = << >>
    /\ err = << >>
    /\ out = << >>
    /\ calls = << >>
    /\ ctx = <<"live">>
    /\ inflight = << >>
    /\ looked = Binaries
    /\ used = << >>
    /\ argv = << >>
    /\ failure = << >>

NextScan ==
    \/ StartCommand \/ StartCancelled \/ Cancel
    \/ AbsFails \/ VerifyModuleFails \/ VerifyModuleOk
    \/ ListDependenciesFails \/ ListDependenciesOk

SpecScan == InitScan /\ [][NextScan]_vars

----------------------------------------------------------------------------
(* The second pass on its own: listEntrypointDeadCode for every entrypoint, *)
(* with every combination of the flags that reach the analyzer              *)

MaxArgPaths == 2

\* the values of the -tags flag: unset, or a build tag
TagsFlags == {"", "integration"}

\* the entrypoint directories of the second pass on its own: one module
ArgDirs == {<<"/", "m1", "a">>, <<"/", "m1", "b">>}

\* the commands the first pass has run for n paths
FirstPassCalls(n) ==
    [i \in 1..(2 * n) |-> IF i % 2 = 1 THEN <<"go list -m", (i + 1) \div 2>>
                                       ELSE <<"go list deps", i \div 2>>]

\* the state when the loop over eps starts
InitArgs ==
    /\ paths \in UNION {[1..n -> ArgDirs] : n \in 1..MaxArgPaths}
    /\ \E filter \in FilterFlags, gen \in BOOLEAN, test \in BOOLEAN, tags \in TagsFlags :
          r = [NewRunner(filter, FALSE) EXCEPT !.GeneratedFlag = gen, !.TestFlag = test,
                                               !.TagsFlag = tags,
                                               !.commonModule = ModuleOf(paths[1]),
                                               !.hasCommonModule = TRUE]
    /\ \E deps \in [1..Len(paths) -> SUBSET Pkgs] :
          eps = [k \in 1..Len(paths) |->
                    [absPath |-> paths[k], deps |-> deps[k], deadCode |-> << >>]]
    /\ eps0 = << >>
    /\ next = 1
    /\ rootPath = << >>
    /\ pc = "listRoot"
    /\ ret = << >>
    /\ err = << >>
    /\ out = << >>
    /\ calls = FirstPassCalls(Len(paths))
    /\ ctx = <<"live">>
    /\ inflight = << >>
    /\ looked = Binaries
    /\ used = << >>
    /\ argv = << >>
    /\ failure = << >>

NextArgs ==
    \/ StartCommand \/ StartCancelled \/ Cancel
    \/ ListRootFails \/ ListRootOk
    \/ DeadcodeFails \/ UnmarshalFails \/ DeadcodeOk

SpecArgs == InitArgs /\ [][NextArgs]_vars

----------------------------------------------------------------------------
(* The emitters on their own: every final mapping, written in either mode *)

PrintPkgs == {"cache", "queue"}

PrintNames == {"Get", "Set"}

\* the files of a package
PrintFiles(p) == {<<"pkg", p, "a">>, <<"pkg", p, "b">>}

PrintLines == {6, 12}

\* the column of the declaration of a function; two functions declared on
\* one line of a file stand in different columns
PrintCol(f) == CASE f = "Get" -> 6 [] f = "Set" -> 24

\* the Function records a report can hold for function f of package p
PrintFunctions(p, f) ==
    {[Name |-> f, Src |-> 1, Position |-> [File |-> file, Line |-> line, Col |-> PrintCol(f)]] :
        file \in PrintFiles(p), line \in PrintLines}

\* the records a final mapping can hold under key p: the zero value the
\* initialization and the reset store, or a record with the descriptor of p
\* and, under every name, a Function of that name
PrintRecords(p) ==
    {ZeroDpf} \cup
    UNION {{[pkg |-> [Path |-> p, Src |-> 1], ref |-> <<"ep", 1, p>>, funcs |-> fm] :
                fm \in {g \in [S -> UNION {PrintFunctions(p, f) : f \in S}] :
                            \A f \in S : g[f].Name = f}} :
            S \in SUBSET PrintNames}

\* the mappings intersectDeadCode can hand to the emitters
FinalMaps ==
    UNION {{m \in [D -> UNION {PrintRecords(p) : p \in D}] : \A p \in D : m[p] \in PrintRecords(p)} :
            D \in SUBSET PrintPkgs}

InitPrint ==
    /\ paths = <<FoldDir>>
    /\ \E json \in BOOLEAN : r = NewRunner("<module>", json)
    /\ eps = << >>
    /\ eps0 = << >>
    /\ next = 1
    /\ rootPath = << >>
    /\ pc = "folded"
    /\ ret \in FinalMaps
    /\ err = << >>
    /\ out = << >>
    /\ calls = << >>
    /\ ctx = <<"live">>
    /\ inflight = << >>
    /\ looked = << >>
    /\ used = << >>
    /\ argv = << >>
    /\ failure = << >>

NextPrint == PrintJSON \/ PrintText

SpecPrint == InitPrint /\ [][NextPrint]_vars

----------------------------------------------------------------------------
(* Vocabulary of the properties of the fold *)

\* the function names a dead-code map holds for p (none when p has no record)
Names(dc, p) == DOMAIN Lookup(dc, p).funcs

\* the positions of the entrypoints of list that have p in their deps set
Importers(list, p) == {k \in 1..Len(list) : p \in list[k].deps}

\* the positions of the entrypoints of list whose report has a record for p
Reporters(list, p) == {k \in 1..Len(list) : p \in DOMAIN list[k].deadCode}

\* the names every entrypoint at a position of K reported dead for p
Common(list, K, p) == {f \in FuncNames : \A k \in K : f \in Names(list[k].deadCode, p)}

Perms(n) == {q \in [1..n -> 1..n] : \A i, j \in 1..n : q[i] = q[j] => i = j}

Permuted(list, q) == [i \in 1..Len(list) |-> list[q[i]]]

NamesMap(dc) == [p \in Pkgs |-> Names(dc, p)]

Folded == pc = "folded"

----------------------------------------------------------------------------
(* Properties of the fold *)

\* C1: once every entrypoint is folded, the names left for a package that at
\* least one entrypoint imports are the intersection of the names reported
\* for it by exactly the entrypoints that import it.
C1_ImportersIntersection ==
    Folded =>
        \A p \in Pkgs :
            Importers(eps0, p) # {} =>
                Names(ret, p) = Common(eps0, Importers(eps0, p), p)

\* C2: every permutation of the entrypoint list gives the same mapping from
\* package to set of surviving function names.
C2_OrderIndependent ==
    Folded =>
        \A q \in Perms(Len(eps0)) :
            NamesMap(intersectDeadCode(Permuted(eps0, q))) = NamesMap(ret)

\* C3: a function is left in the result only if every entrypoint that imports
\* its package reported it dead. The lists of the initial states are all the
\* lists, so every order of the entrypoints is covered.
C3_OnlyDeadEverywhere ==
    Folded =>
        \A p \in Pkgs : \A f \in Names(ret, p) :
            \A k \in Importers(eps0, p) : f \in Names(eps0[k].deadCode, p)

\* C3 witness: three entrypoints, two of them import the package and report
\* different sets; one function survives and a function one of them reported
\* is dropped.
C3_Witness ==
    /\ Folded
    /\ Len(eps0) = 3
    /\ \E p \in Pkgs :
        /\ Cardinality(Importers(eps0, p)) >= 2
        /\ Names(ret, p) # {}
        /\ \E k \in Importers(eps0, p) : Names(eps0[k].deadCode, p) \ Names(ret, p) # {}

\* C4: a package imported by A and B and not by C ends with the intersection of
\* the sets of A and B, whatever the report of C holds and wherever C stands.
C4_NonImporterIgnored ==
    Folded /\ Len(eps0) = 3 =>
        \A p \in Pkgs : \A a, b, c \in 1..3 :
            ( /\ {a, b, c} = 1..3
              /\ p \in eps0[a].deps
              /\ p \in eps0[b].deps
              /\ p \notin eps0[c].deps )
            => Names(ret, p) = Names(eps0[a].deadCode, p) \cap Names(eps0[b].deadCode, p)

\* C5: when an entrypoint imports a package and holds no dead function for
\* it, the package ends with no function, wherever that entrypoint stands.
C5_FullUseDominates ==
    Folded =>
        \A p \in Pkgs :
            (\E k \in Importers(eps0, p) : Names(eps0[k].deadCode, p) = {})
                => Names(ret, p) = {}

\* C5 witness: the entrypoint in the middle of three imports the package and
\* has no record for it; the first and the last report a common function.
C5_Witness ==
    /\ Folded
    /\ Len(eps0) = 3
    /\ \E p \in Pkgs :
        /\ p \in eps0[2].deps
        /\ p \notin DOMAIN eps0[2].deadCode
        /\ p \in eps0[1].deps /\ p \in eps0[3].deps
        /\ Names(eps0[1].deadCode, p) \cap Names(eps0[3].deadCode, p) # {}
        /\ Names(ret, p) = {}

C7_SingleEntrypoint ==
    Folded /\ Len(eps0) = 1 =>
        /\ \A p \in DOMAIN eps0[1].deadCode :
              p \in DOMAIN ret /\ ret[p].funcs = eps0[1].deadCode[p].funcs
        /\ \A p \in (DOMAIN ret) \ (DOMAIN eps0[1].deadCode) : LenFuncs(ret[p]) = 0

\* C7 witness: one entrypoint that imports the package and reports two functions.
C7_Witness ==
    /\ Folded
    /\ Len(eps0) = 1
    /\ \E p \in eps0[1].deps : Cardinality(Names(ret, p)) >= 2

----------------------------------------------------------------------------
(* Vocabulary of the properties of Run *)

Range(q) == {q[i] : i \in DOMAIN q}

MismatchText == "different modules are not supported without filter flag"

\* the module query for path i has been made and has answered
Resolved(i) ==
    /\ <<"go list -m", i>> \in Range(calls)
    /\ inflight # <<"go list -m", i>>
    /\ ~(/\ pc = "failed"
         /\ err[1] = "failed to list module name"
         /\ calls[Len(calls)] = <<"go list -m", i>>)

\* a resolved entrypoint whose module is not the module of the first one
Differing == {i \in 1..Len(paths) : Resolved(i) /\ ModuleOf(paths[i]) # ModuleOf(paths[1])}

CustomFilter == r.FilterFlag # "" /\ r.FilterFlag # "<module>"

\* the file paths that were written
OutFiles ==
    IF r.JSONFlag
    THEN UNION {{out[i].Funcs[j].Position.File : j \in DOMAIN out[i].Funcs} : i \in DOMAIN out}
    ELSE {out[i].File : i \in DOMAIN out}

\* the file paths the collectors stored for the entrypoints
StoredFiles ==
    UNION {UNION {{eps[k].deadCode[p].funcs[f].Position.File :
                      f \in DOMAIN eps[k].deadCode[p].funcs} :
                  p \in DOMAIN eps[k].deadCode} :
           k \in DOMAIN eps}

----------------------------------------------------------------------------
(* Properties of Run *)

\* C8: when the module of an entrypoint differs from the module of the first
\* one and FilterFlag is empty or "<module>", Run has failed with the
\* mismatch error, which names the module of the first entrypoint and then
\* the differing one, and nothing is written.
C8_MismatchRejected ==
    \A i \in Differing :
        ~CustomFilter =>
            /\ pc = "failed"
            /\ err = <<MismatchText, ModuleOf(paths[1]), ModuleOf(paths[i])>>
            /\ out = << >>

\* C8 witness: the second path is of another module, no filter is set, and
\* Run has failed on it.
C8_Witness ==
    /\ pc = "failed"
    /\ r.FilterFlag = ""
    /\ Differing = {2}
    /\ err[1] = MismatchText

\* C9: when the module of an entrypoint differs from the module of the first
\* one and a filter of the user is set, Run does not fail with the mismatch
\* error, and every file path stored for any entrypoint and every file path
\* written is absolute.
C9_CustomFilterAbsolute ==
    Differing # {} /\ CustomFilter =>
        /\ ~(pc = "failed" /\ err[1] = MismatchText)
        /\ \A f \in StoredFiles \cup OutFiles : IsAbs(f)

\* C9 witness: a finished run over two modules with a filter of the user that
\* writes a function whose record is the first entrypoint's, which was
\* resolved before the differing one.
C9_Witness ==
    /\ pc = "done"
    /\ CustomFilter
    /\ Differing # {}
    /\ OutFiles # {}
    /\ \E p \in DOMAIN ret : \E f \in DOMAIN ret[p].funcs : ret[p].funcs[f].Src = 1
    /\ ~r.hasCommonModule

\* C10: when all entrypoints have the same module every written file path is
\* relative (the root prefix is stripped), and otherwise every written file
\* path is absolute.
C10_OneConvention ==
    pc = "done" =>
        IF \A i \in 1..Len(paths) : ModuleOf(paths[i]) = ModuleOf(paths[1])
        THEN \A f \in OutFiles : ~IsAbs(f)
        ELSE \A f \in OutFiles : IsAbs(f)

----------------------------------------------------------------------------
(* Properties of the emitters *)

PrintedText == pc = "done" /\ ~r.JSONFlag

PrintedJSON == pc = "done" /\ r.JSONFlag

\* the bytes of a written text line
WrittenKey(l) ==
    PathKey(l.File) \o <<58>> \o Digits(l.Line) \o <<58>> \o Digits(l.Col) \o <<58>>
        \o <<WordRank(l.Name)>>

\* the (file, line, col, name) tuples of a text output
TextTuples(lines) == {<<lines[i].File, lines[i].Line, lines[i].Col, lines[i].Name>> : i \in DOMAIN lines}

\* the (file, line, col, name) tuples of a structured output
JSONTuples(doc) ==
    UNION {{<<doc[i].Funcs[j].Position.File, doc[i].Funcs[j].Position.Line,
              doc[i].Funcs[j].Position.Col, doc[i].Funcs[j].Name>> : j \in DOMAIN doc[i].Funcs} :
            i \in DOMAIN doc}

\* C11: text mode writes one line <file>:<line>:<col>: unreachable func:
\* <name> for every function of the mapping and no other line, the lines
\* stand in the ascending byte order of the whole line (so line 12 of a file
\* comes before line 6 of it), and a mapping without functions writes nothing.
C11_TextLines ==
    PrintedText =>
        /\ Len(out) = Cardinality(Entries(ret))
        /\ \A e \in Entries(ret) :
               LET fun == ret[e[1]].funcs[e[2]]
               IN  \E i \in DOMAIN out :
                      out[i] = [File |-> fun.Position.File, Line |-> fun.Position.Line,
                                Col |-> fun.Position.Col, Name |-> fun.Name]
        /\ \A i, j \in DOMAIN out : i < j => ~LexLess(WrittenKey(out[j]), WrittenKey(out[i]))
        /\ \A i, j \in DOMAIN out :
               (out[i].File = out[j].File /\ out[i].Line = 12 /\ out[j].Line = 6) => i < j
        /\ (Entries(ret) = {} => out = << >>)

\* C11 witness: three or more lines are written, among them line 12 of a
\* file ahead of line 6 of the same file.
C11_Witness ==
    /\ PrintedText
    /\ Len(out) >= 3
    /\ \E i, j \in DOMAIN out :
          i < j /\ out[i].File = out[j].File /\ out[i].Line = 12 /\ out[j].Line = 6

\* C12: the structured output holds exactly the packages with at least one
\* function, in the ascending order of their import paths, and every package
\* holds exactly its functions in the ascending order of (file, line).
C12_JSONDocument ==
    PrintedJSON =>
        /\ {out[i].Path : i \in DOMAIN out} = {p \in DOMAIN ret : DOMAIN ret[p].funcs # {}}
        /\ \A i, j \in DOMAIN out : i < j => WordRank(out[i].Path) < WordRank(out[j].Path)
        /\ \A i \in DOMAIN out :
               LET fs == out[i].Funcs
                   dpf == ret[out[i].Path]
               IN  /\ {fs[a] : a \in DOMAIN fs} = {dpf.funcs[f] : f \in DOMAIN dpf.funcs}
                   /\ Len(fs) = Cardinality(DOMAIN dpf.funcs)
                   /\ \A a, b \in DOMAIN fs : a < b =>
                          \/ LexLess(PathKey(fs[a].Position.File), PathKey(fs[b].Position.File))
                          \/ /\ fs[a].Position.File = fs[b].Position.File
                             /\ fs[a].Position.Line <= fs[b].Position.Line

\* C12 witness: two packages are written, one of them with two functions of
\* one file on different lines.
C12_Witness ==
    /\ PrintedJSON
    /\ Len(out) = 2
    /\ \E i \in DOMAIN out :
          /\ Len(out[i].Funcs) = 2
          /\ out[i].Funcs[1].Position.File = out[i].Funcs[2].Position.File
          /\ out[i].Funcs[1].Position.Line # out[i].Funcs[2].Position.Line

\* C13: for one final mapping, the (file, line, col, name) tuples of the
\* text output are the tuples of the structured output.
C13_SameTuples ==
    /\ PrintedText => \A doc \in printJSON(ret) : JSONTuples(doc) = TextTuples(out)
    /\ PrintedJSON => \A lines \in printText(ret) : TextTuples(lines) = JSONTuples(out)

\* C13 witness: a structured output of two packages and three or more
\* functions.
C13_Witness ==
    /\ PrintedJSON
    /\ Len(out) = 2
    /\ Cardinality(JSONTuples(out)) >= 3

\* C14: the same final mapping is always written as the same output, in
\* text mode and in structured mode, whatever order the maps are iterated in.
C14_Deterministic ==
    pc = "folded" =>
        Cardinality(IF r.JSONFlag THEN printJSON(ret) ELSE printText(ret)) = 1

----------------------------------------------------------------------------
(* Properties of the error paths of Run *)

\* an external command has returned an error and Run has returned
CallFailed ==
    /\ pc = "failed"
    /\ \E p \in CommandPcs : err[1] = Failure(p)
    /\ err[3] \in {ToolFailed, "signal: killed"}

\* C15: when an external command fails, Run returns the error of that
\* command, the failed command stays the last one started, and nothing is
\* written, in text mode and in structured mode.
C15_FailFast ==
    /\ err # << >> => pc = "failed"
    /\ CallFailed =>
          /\ \E p \in CommandPcs :
                /\ err[1] = Failure(p)
                /\ calls[Len(calls)][1] = Command(p)
          /\ inflight = << >>
          /\ ~ENABLED StartCommand
          /\ out = << >>

\* C15 witness: the analyzer fails for the second of two entrypoints, after
\* seven commands that succeeded.
C15_Witness ==
    /\ CallFailed
    /\ err[1] = Failure("deadcode")
    /\ calls[Len(calls)] = <<"deadcode", 2>>
    /\ Len(calls) = 8

\* C16: with no path, Run fails with "no paths provided" before any binary
\* is looked up, no external command is started and nothing is written.
C16_NoPaths ==
    Len(paths) = 0 =>
        /\ pc \in {"run", "failed"}
        /\ pc = "failed" => err = <<"no paths provided">>
        /\ looked = << >>
        /\ calls = << >>
        /\ out = << >>

\* C16 witness: Run has returned for an empty path list.
C16_Witness ==
    /\ Len(paths) = 0
    /\ pc = "failed"
    /\ err = <<"no paths provided">>

\* C17: when the context is cancelled while an external command is running,
\* that command is terminated and returns an error, Run returns an error with
\* that command still the last one started, and nothing is written.
C17_CancelInFlight ==
    (ctx[1] = "cancelled" /\ ctx[2] # << >>) =>
        \/ inflight = ctx[2]
        \/ /\ pc = "failed"
           /\ \E p \in CommandPcs :
                 /\ Command(p) = ctx[2][1]
                 /\ err[1] = Failure(p)
                 /\ err[3] = "signal: killed"
           /\ inflight = << >>
           /\ calls[Len(calls)] = ctx[2]
           /\ out = << >>

\* C17 witness: the context was cancelled while the analyzer ran for the
\* second of two entrypoints, and Run has returned.
C17_Witness ==
    /\ ctx = <<"cancelled", <<"deadcode", 2>>>>
    /\ pc = "failed"
    /\ Len(eps) = 2

----------------------------------------------------------------------------
(* Properties of one step of the fold *)

\* the accumulator is initialized and the loop over the entrypoints runs
Folding == pc = "fold"

\* what the order of two folds is compared on: result.deps and the names
\* the accumulator holds for every package
FoldView(acc) == [deps |-> acc.deps, names |-> NamesMap(acc.deadCode)]

\* C18: from every accumulator the loop reaches, folding entrypoint E1 and
\* then E2 leaves the same result.deps and the same names for every package
\* as folding E2 and then E1.
C18_FoldCommutes ==
    Folding =>
        \A i, j \in 2..Len(eps) :
            i < j =>
                FoldView(Merge(Merge(eps[1], eps[i]), eps[j]))
                    = FoldView(Merge(Merge(eps[1], eps[j]), eps[i]))

\* C18 witness: the accumulator holds two names for a package it knows, and
\* two entrypoints that are still to be folded report different sets for it.
C18_Witness ==
    /\ Folding
    /\ next = 2
    /\ Len(eps) = 3
    /\ \E p \in Pkgs :
          /\ p \in eps[1].deps
          /\ Cardinality(Names(eps[1].deadCode, p)) >= 2
          /\ Names(eps[2].deadCode, p) # Names(eps[3].deadCode, p)
          /\ Names(eps[2].deadCode, p) # {}
          /\ Names(eps[3].deadCode, p) # {}

\* the packages the fold of the next entrypoint intersects
Intersected == {p \in DOMAIN eps[next].deadCode : ~Adopts(eps[1], p)}

\* C19: when the fold intersects the record of a package with the record of
\* the entrypoint being folded, every surviving function is the Function
\* record the accumulator stored, not the one of the folded entrypoint.
C19_KeepsStoredRecord ==
    (Folding /\ next <= Len(eps)) =>
        LET after == Merge(eps[1], eps[next])
        IN  \A p \in Intersected : \A f \in DOMAIN after.deadCode[p].funcs :
                after.deadCode[p].funcs[f] = eps[1].deadCode[p].funcs[f]

\* C19 as the code has it: every surviving function is the Function record
\* of the entrypoint being folded, and the package descriptor is the one the
\* accumulator stored.
C19_Amended ==
    (Folding /\ next <= Len(eps)) =>
        LET after == Merge(eps[1], eps[next])
        IN  \A p \in Intersected :
                /\ \A f \in DOMAIN after.deadCode[p].funcs :
                       after.deadCode[p].funcs[f] = eps[next].deadCode[p].funcs[f]
                /\ DOMAIN after.deadCode[p].funcs # {} =>
                       after.deadCode[p].pkg = eps[1].deadCode[p].pkg

\* C19 witness: an intersection leaves a function whose stored record and
\* whose record in the folded entrypoint are different records.
C19_Witness ==
    /\ Folding
    /\ next <= Len(eps)
    /\ \E p \in Intersected : \E f \in DOMAIN Merge(eps[1], eps[next]).deadCode[p].funcs :
          /\ eps[1].deadCode[p].funcs[f] # eps[next].deadCode[p].funcs[f]
          /\ eps[1].deadCode[p].pkg # eps[next].deadCode[p].pkg

\* C20: when the fold adopts the record of the folded entrypoint for a
\* package that is not in result.deps, the accumulator holds no function for
\* the package before the step, and the package is in result.deps after it.
C20_AdoptionFresh ==
    (Folding /\ next <= Len(eps)) =>
        \A p \in DOMAIN eps[next].deadCode :
            p \notin eps[1].deps =>
                /\ Names(eps[1].deadCode, p) = {}
                /\ p \in Merge(eps[1], eps[next]).deps

----------------------------------------------------------------------------
(* Properties of the collected facts *)

\* C21: for every entrypoint handed to the fold and every package, the
\* entrypoint has a record for the package only if the package is in its deps
\* set, and a record it has holds at least one function.
C21_ThreeStates ==
    pc = "intersect" =>
        \A k \in DOMAIN eps : \A p \in DOMAIN eps[k].deadCode :
            /\ p \in eps[k].deps
            /\ DOMAIN eps[k].deadCode[p].funcs # {}

\* C22: once the accumulator is initialized, and after every fold step,
\* every package of result.deps has a record in result.deadCode.
C22_KnownHasRecord ==
    pc \in {"fold", "folded"} => eps[1].deps \subseteq DOMAIN eps[1].deadCode

\* C22 witness: the first entrypoint imports a package its report has no
\* record for, and a fold step has run on the initialized accumulator.
C22_Witness ==
    /\ Folding
    /\ next = 3
    /\ \E p \in eps0[1].deps : p \notin DOMAIN eps0[1].deadCode /\ p \in DOMAIN eps[1].deadCode

\* an entrypoint is about to be folded
Step == Folding /\ next <= Len(eps)

MergeDepsFirst(result, ep) == FoldDeadCode(FoldDeps(result, ep), ep)

\* C24: running the loop over the deps of the entrypoint before the loop
\* over its dead-code map leaves the same result.deps and the same names
\* for every package as the order of the code, from every accumulator.
C24_LoopOrder ==
    Step => FoldView(MergeDepsFirst(eps[1], eps[next])) = FoldView(Merge(eps[1], eps[next]))

\* C24 witness: the folded entrypoint imports a package and holds a record
\* without functions for it, so both loops write the package; the
\* accumulator holds functions for it.
C24_Witness ==
    /\ Step
    /\ \E p \in eps[next].deps :
          /\ p \in DOMAIN eps[next].deadCode
          /\ Names(eps[next].deadCode, p) = {}
          /\ Names(eps[1].deadCode, p) # {}

\* C25: the fold writes the first entrypoint only: every other entrypoint
\* has, at every step and at the end, the deps set, the dead-code map and the
\* function maps the collectors delivered, also when the accumulator adopted
\* one of its records and intersected or reset it afterwards.
C25_OthersUntouched ==
    pc \in {"fold", "folded"} =>
        \A k \in 2..Len(eps) : eps[k] = eps0[k]

\* C25 witness: the accumulator did not know the package, adopted the record
\* of the second entrypoint, and the third entrypoint cut it down.
C25_Witness ==
    /\ Folded
    /\ Len(eps) = 3
    /\ \E p \in Pkgs :
          /\ p \notin eps0[1].deps
          /\ p \notin DOMAIN eps0[1].deadCode
          /\ p \in DOMAIN eps0[2].deadCode
          /\ p \in DOMAIN eps0[3].deadCode
          /\ Names(eps0[3].deadCode, p) # {}
          /\ Names(eps0[3].deadCode, p) # Names(eps0[2].deadCode, p)
          /\ Names(eps0[3].deadCode, p) \subseteq Names(eps0[2].deadCode, p)
          /\ Names(ret, p) = Names(eps0[3].deadCode, p)

----------------------------------------------------------------------------
(* Properties of the passes of Run *)

\* verifyModule has returned without error for path i
Verified(i) ==
    /\ Resolved(i)
    /\ ~(/\ pc = "failed"
         /\ err[1] = MismatchText
         /\ calls[Len(calls)] = <<"go list -m", i>>)

\* C26: commonModule is the module of the first entrypoint from its
\* verification on, and hasCommonModule is true exactly when every
\* entrypoint verified so far has that module; an entrypoint of another module
\* makes it false for good, also when an entrypoint of the first module follows.
C26_CommonModule ==
    LET V == {i \in 1..Len(paths) : Verified(i)}
    IN  /\ V = {} => (r.commonModule = "" /\ ~r.hasCommonModule)
        /\ V # {} =>
              /\ r.commonModule = ModuleOf(paths[1])
              /\ r.hasCommonModule <=> \A i \in V : ModuleOf(paths[i]) = r.commonModule

\* C26 witness: three entrypoints are verified, the second of another module
\* than the first and the third of the first module again.
C26_Witness ==
    /\ Len(paths) = 3
    /\ \A i \in 1..3 : Verified(i)
    /\ ModuleOf(paths[2]) # ModuleOf(paths[1])
    /\ ModuleOf(paths[3]) = ModuleOf(paths[1])
    /\ ~r.hasCommonModule

\* the commands of the first pass and of the second pass
FirstPass == {"go list -m", "go list deps"}

SecondPass == {"go list root", "deadcode"}

\* C27: when the first command of the dead-code pass starts, the module of
\* every entrypoint is verified and its dependencies are listed, and from
\* then on the Runner, hasCommonModule with it, stays as it is, so every
\* normalization of a run reads the same hasCommonModule.
C27_PassesInOrder ==
    /\ [](\A n \in DOMAIN calls :
            calls[n][1] \in SecondPass =>
                /\ Len(eps) = Len(paths)
                /\ \A j \in 1..Len(paths) :
                       /\ Verified(j)
                       /\ \E a \in 1..(n - 1) : calls[a] = <<"go list -m", j>>
                       /\ \E b \in 1..(n - 1) : calls[b] = <<"go list deps", j>>
                /\ \A k \in n..Len(calls) : calls[k][1] \in SecondPass)
    /\ [][(pc \in {"listRoot", "deadcode"}) => (r' = r)]_vars

\* C27 witness: the analyzer has answered for the second of two entrypoints
\* of different modules.
C27_Witness ==
    /\ pc = "intersect"
    /\ Len(eps) = 2
    /\ ModuleOf(paths[2]) # ModuleOf(paths[1])
    /\ calls[Len(calls)] = <<"deadcode", 2>>

\* the commands of a run over n paths that meets no error, in the order of
\* the claim: per path the module query and the dependency query, then per
\* path the module-root query and the analyzer
Expected(n) ==
    [k \in 1..(2 * n) |->
        IF k % 2 = 1 THEN <<"go list -m", (k + 1) \div 2>> ELSE <<"go list deps", k \div 2>>]
    \o
    [k \in 1..(2 * n) |->
        IF k % 2 = 1 THEN <<"go list root", (k + 1) \div 2>> ELSE <<"deadcode", k \div 2>>]

\* C28: the commands started so far are the first ones of the sequence that
\* takes the paths in their order, module query before dependency query in
\* the first pass and module-root query before analyzer in the second, and
\* while a command runs it is the last one started and no other can start.
C28_CallOrder ==
    /\ Len(calls) <= 4 * Len(paths)
    /\ calls = SubSeq(Expected(Len(paths)), 1, Len(calls))
    /\ inflight # << >> => (inflight = calls[Len(calls)] /\ ~ENABLED StartCommand)

\* C28 witness: a run over two paths has ended without error.
C28_Witness ==
    /\ pc = "done"
    /\ Len(paths) = 2
    /\ Len(calls) = 8

\* how often command c was started
Started(c) == Cardinality({n \in DOMAIN calls : calls[n] = c})

\* C29: in a run that ended without error every path got one module query,
\* one dependency query and one analyzer run, and the fold took up every
\* entrypoint once: the first to start from, each other one in one merge.
C29_EachOnce ==
    pc = "done" =>
        /\ Len(eps) = Len(paths)
        /\ \A i \in 1..Len(paths) :
               /\ Started(<<"go list -m", i>>) = 1
               /\ Started(<<"go list deps", i>>) = 1
               /\ Started(<<"deadcode", i>>) = 1
        /\ used = [k \in 1..Len(paths) |-> k]

\* C29 witness: a run over two paths has ended without error and has
\* written a function.
C29_Witness ==
    /\ pc = "done"
    /\ Len(paths) = 2
    /\ out # << >>

----------------------------------------------------------------------------
(* Properties of the normalization of file paths *)

\* the dead-code pass runs or has just ended: eps holds what the collectors
\* stored, untouched by the fold
Collecting == pc \in {"listRoot", "deadcode", "intersect"}

\* the functions stored for the entrypoints, each with its entrypoint and package
StoredFuncs ==
    UNION {UNION {{<<k, p, eps[k].deadCode[p].funcs[f]>> : f \in DOMAIN eps[k].deadCode[p].funcs} :
                  p \in DOMAIN eps[k].deadCode} :
           k \in DOMAIN eps}

\* the form in which the analyzer reported a stored file, told by the
\* directory that only this form has
ReportedForm(file) ==
    IF "lib" \in Range(file) THEN "rel"
    ELSE IF "pkg" \in Range(file) THEN "abs" ELSE "ext"

\* the stored file of x is what the run-wide choice makes of the path abs
StoredAs(x, abs) ==
    x[3].Position.File =
        IF r.hasCommonModule THEN CutPrefix(abs, RootOf(eps[x[1]].absPath)) ELSE abs

Follows(a, flag, value) == \E j \in 1..(Len(a) - 1) : a[j] = flag /\ a[j + 1] = value

\* C31: every analyzer invocation of one run receives the same argument list:
\* "-json" first, "-generated" exactly when GeneratedFlag is set, "-test"
\* exactly when TestFlag is set, "-tags <value>" exactly when TagsFlag is not
\* empty, "-filter <value>" exactly when FilterFlag is not empty, and "./..."
\* last.
C31_SameArguments ==
    \A i \in DOMAIN argv :
        LET a == argv[i]
        IN  /\ a = argv[1]
            /\ a[1] = "-json"
            /\ a[Len(a)] = "./..."
            /\ ("-generated" \in Range(a)) <=> r.GeneratedFlag
            /\ ("-test" \in Range(a)) <=> r.TestFlag
            /\ ("-tags" \in Range(a)) <=> (r.TagsFlag # "")
            /\ ("-tags" \in Range(a)) => Follows(a, "-tags", r.TagsFlag)
            /\ ("-filter" \in Range(a)) <=> (r.FilterFlag # "")
            /\ ("-filter" \in Range(a)) => Follows(a, "-filter", r.FilterFlag)
            /\ Len(a) = 2 + (IF r.GeneratedFlag THEN 1 ELSE 0) + (IF r.TestFlag THEN 1 ELSE 0)
                          + (IF r.TagsFlag # "" THEN 2 ELSE 0)
                          + (IF r.FilterFlag # "" THEN 2 ELSE 0)

\* two analyzer invocations of a run with every flag set
C31_Witness ==
    /\ Len(argv) = 2
    /\ r.GeneratedFlag /\ r.TestFlag /\ r.TagsFlag # "" /\ r.FilterFlag # ""

\* the prefixes Run puts before the error of each external step
StepPrefixes == {Failure(p) : p \in CommandPcs} \cup {UnmarshalFailure}

\* C32: the error Run returns for a failed external step identifies the step
\* by a prefix that is distinct for each of module query, dependency query,
\* module-root query, analyzer invocation and parsing of the analyzer report,
\* and it carries the collaborator's own output unmodified after that prefix.
C32_StepNamed ==
    /\ Cardinality(StepPrefixes) = Cardinality(CommandPcs) + 1
    /\ failure # << >> =>
          /\ pc = "failed"
          /\ err[1] = (IF failure[1] = "unmarshal" THEN UnmarshalFailure ELSE Failure(failure[1]))
          /\ err[2] = failure[2]

\* C32 witness: the module-root query of the second entrypoint failed after
\* it had written a message.
C32_Witness ==
    /\ pc = "failed"
    /\ failure = <<"listRoot", "no Go files">>
    /\ calls[Len(calls)] = <<"go list root", 2>>

----------------------------------------------------------------------------
(* Properties of the accumulator along the fold *)

\* C33: for a package that is already in result.deps, the set of function
\* names the accumulator holds never gains a function in a later fold step,
\* and once that set is empty it stays empty until the fold ends.
C33_NeverGains ==
    [][Folding =>
          \A p \in eps[1].deps :
              /\ Names(eps'[1].deadCode, p) \subseteq Names(eps[1].deadCode, p)
              /\ Names(eps[1].deadCode, p) = {} => Names(eps'[1].deadCode, p) = {}]_vars

\* C33 witness: the first entrypoint imports the package and reported
\* functions for it, the second step left none, and the third entrypoint,
\* which reports functions for it, is folded.
C33_Witness ==
    /\ pc = "folded"
    /\ Len(eps) = 3
    /\ \E p \in eps0[1].deps :
          /\ Names(eps0[1].deadCode, p) # {}
          /\ Names(Merge(InitResult(eps0[1]), eps0[2]).deadCode, p) = {}
          /\ Names(eps0[3].deadCode, p) # {}

\* C34: in every state of the fold, a record of result.deadCode that holds
\* at least one function has a package descriptor that is not nil, so
\* printJSON, which reads the descriptor only for records with functions,
\* never dereferences a nil descriptor.
C34_DescriptorWithFunctions ==
    pc \in {"fold", "folded"} =>
        /\ \A p \in DOMAIN eps[1].deadCode :
               Names(eps[1].deadCode, p) # {} => eps[1].deadCode[p].pkg # NilPkg
        /\ pc = "folded" => ~NilDereference(ret)

\* C34 witness: the first entrypoint imports a package its report has no
\* record for, so the accumulator starts with a record without descriptor;
\* the second entrypoint reports functions for the package, and the record
\* the fold returns has no descriptor.
C34_Witness ==
    /\ pc = "folded"
    /\ \E p \in eps0[1].deps :
          /\ p \notin DOMAIN eps0[1].deadCode
          /\ Len(eps0) >= 2
          /\ Names(eps0[2].deadCode, p) # {}
          /\ ret[p].pkg = NilPkg

\* the packages an entrypoint of the list mentions, in its deps set or in
\* its dead-code map
Mentioned(list) == UNION {list[k].deps \cup DOMAIN list[k].deadCode : k \in DOMAIN list}

\* C35: during the fold result.deps never loses a package, and the final
\* mapping has an entry, possibly with no function, for every package that
\* is in the deps set or in the dead-code map of any entrypoint, and for no
\* other package.
C35_EntryForEveryMentioned ==
    /\ [][(pc \in {"intersect", "fold"}) => (eps[1].deps \subseteq eps'[1].deps)]_vars
    /\ [](Folded => DOMAIN ret = Mentioned(eps0))

\* C35 witness: no report has a record for the package and only the last of
\* three entrypoints imports it; the final mapping has an entry without
\* function for it.
C35_Witness ==
    /\ Folded
    /\ Len(eps0) = 3
    /\ \E p \in Pkgs :
          /\ \A k \in 1..3 : p \notin DOMAIN eps0[k].deadCode
          /\ Importers(eps0, p) = {3}
          /\ p \in DOMAIN ret
          /\ Names(ret, p) = {}

\* the list with x put in at position i
Insert(list, i, x) ==
    [j \in 1..(Len(list) + 1) |-> IF j < i THEN list[j] ELSE IF j = i THEN x ELSE list[j - 1]]

\* C36: folding the same entrypoint a second time changes nothing: a path
\* list that names one entrypoint twice, at any two positions, gives the
\* same final mapping from package to set of function names as the list with
\* that entrypoint named once. The second scan of an entrypoint delivers the
\* deps set and the report of the first.
C36_TwiceAsOnce ==
    Folded =>
        \A k \in 1..Len(eps0) : \A i \in 1..(Len(eps0) + 1) :
            NamesMap(intersectDeadCode(Insert(eps0, i, eps0[k]))) = NamesMap(ret)

----------------------------------------------------------------------------
(* Properties of the list handed to the fold *)

\* the analyzer has run for the entrypoint at position k and has returned
Analyzed(k) == <<"deadcode", k>> \in Range(calls) /\ inflight # <<"deadcode", k>>

\* C37: intersectDeadCode is reached only with at least one entrypoint whose
\* dead-code map has been populated: on every path of Run that reaches it
\* the list of entrypoints has as many elements as the path list, which is
\* not empty, so reading the first element never fails.
C37_FirstElementThere ==
    pc \in {"intersect", "fold", "folded"} =>
        /\ Len(paths) > 0
        /\ Len(eps) = Len(paths)
        /\ 1 \in DOMAIN eps
        /\ \A k \in DOMAIN eps : Analyzed(k)

\* C37 witness: Run is about to call intersectDeadCode with the
\* entrypoints of two paths.
C37_Witness ==
    /\ pc = "intersect"
    /\ Len(paths) = 2
    /\ Len(eps) = 2
    /\ Analyzed(1) /\ Analyzed(2)

====
